---- MODULE Spec2Model ----
(***************************************************************************)
(* Model of scripts/quality_check.py: the DataQualityChecker rule library, *)
(* its issue ledger, the report generator and the run_quality_checks       *)
(* driver.                                                                 *)
(*                                                                         *)
(* Two specifications share the definitions:                               *)
(*   Spec     one DataQualityChecker on which a caller invokes the rules   *)
(*            in any order on one table;                                   *)
(*   RunSpec  run_quality_checks: load three files, the fixed sequence of  *)
(*            eleven rule calls, generate_report, the CSV export.          *)
(*                                                                         *)
(* A cell value is a pair <<kind, payload>>:                               *)
(*   <<"NaN", 0>>   a missing value (NaN / None)                           *)
(*   <<"num", v>>   the number v                                           *)
(*   <<"date", d>>  a string holding the ISO date of day number d          *)
(*   <<"str", s>>   any other string (s identifies it)                     *)
(*   <<"ts", h>>    a Timestamp, h hours after the epoch                   *)
(*   <<"NaT", 0>>   the missing Timestamp                                  *)
(* A float that the code computes by a division is kept exact, as the      *)
(* reduced fraction <<numerator, denominator>>; <<0, 0>> is NaN.           *)
(***************************************************************************)
EXTENDS Integers, Sequences, FiniteSets, TLC

VARIABLES
    tables,         \* name -> DataFrame: the tables the rules are called on
    issues,         \* DataQualityChecker.issues
    passed_checks,  \* DataQualityChecker.passed_checks
    now,            \* datetime.now(), in hours since the epoch
    files,          \* file name -> "absent" | "malformed" | DataFrame (the csv files)
    pc,             \* position of run_quality_checks / "session" under Spec
    report,         \* <<what generate_report returned>>, <<>> before it is called
    export,         \* data_quality_report.csv: whether written, and its rows
    result,         \* return value of run_quality_checks
    signal,         \* which error message the driver printed
    calls,          \* number of rule invocations made so far
    last            \* the last invocation: rule, arguments, state before it

vars == <<tables, issues, passed_checks, now, files, pc, report, export,
          result, signal, calls, last>>

NONE == "None"

\* ------------------------------------------------------------------ bounds

\* Rule invocations a caller makes on one checker (Spec).
MaxCalls == 2
\* Copies of the first row of a table.
MaxOdd == 2
\* Copies of the second row of a table: 0, 1, Bulk - 1 or Bulk.
Bulk == 19
\* Copies of each row in a file of the driver run (RunSpec).
MaxFileRows == 1

\* ------------------------------------------------------------------ values

NaN == <<"NaN", 0>>
NaT == <<"NaT", 0>>
Num(v) == <<"num", v>>
DateStr(d) == <<"date", d>>
Str(s) == <<"str", s>>
Ts(h) == <<"ts", h>>

FloatNaN == <<0, 0>>

HoursPerDay == 24

\* The day the run happens, and the hour of that day.
Today == 400
NowHour == 12

RECURSIVE Gcd(_, _)
Gcd(a, b) == IF b = 0 THEN a ELSE Gcd(b, a % b)

\* a / b as the code's float division of non-negative integers (NaN for 0/0).
Div(a, b) ==
    IF b = 0 THEN FloatNaN
    ELSE LET g == Gcd(a, b) IN <<a \div g, b \div g>>

\* f > t for a float f and an integer t (every comparison with NaN is False).
FloatGt(f, t) == f[2] # 0 /\ f[1] > t * f[2]

\* ------------------------------------------------------------- DataFrame

\* pandas' isnull on one cell.
IsNull(v) == v[1] \in {"NaN", "NaT"}

NRows(df) == Len(df.rows)

HasColumn(df, col) == \E i \in 1..Len(df.columns) : df.columns[i] = col

\* The dtype pandas infers for a column of values; "float64" stands for
\* every numeric dtype.
InferDtype(vals) ==
    IF \A i \in 1..Len(vals) : vals[i][1] \in {"NaN", "num"} THEN "float64"
    ELSE IF \A i \in 1..Len(vals) : vals[i][1] \in {"NaT", "ts"} THEN "datetime64"
    ELSE "object"

ColumnValues(df, col) == [i \in 1..NRows(df) |-> df.rows[i][col]]

Repeat(x, n) == [i \in 1..n |-> x]

\* The DataFrame holding m1 copies of row r1 followed by m2 copies of row r2.
\* A column with no value has the dtype emptyDtype.
MakeFrame(cols, r1, m1, r2, m2, emptyDtype) ==
    LET rows == Repeat(r1, m1) \o Repeat(r2, m2) IN
    [columns |-> cols,
     rows    |-> rows,
     dtypes  |-> [c \in {cols[i] : i \in 1..Len(cols)} |->
                    IF Len(rows) = 0 THEN emptyDtype
                    ELSE InferDtype([i \in 1..Len(rows) |-> rows[i][c]])]]

\* ---------------------------------------------------------------- ledger

\* strftime('%Y-%m-%d %H:%M:%S') of a time given in hours: the day and the
\* time of day, the minutes and seconds being zero at this resolution.
Strftime(t) == <<t \div HoursPerDay, t % HoursPerDay, 0, 0>>

\* A ledger is [issues, passed_checks]; add_issue and add_pass append.
add_issue(L, t, severity, category, message, details) ==
    [L EXCEPT !.issues = Append(@, [timestamp |-> Strftime(t),
                                    severity  |-> severity,
                                    category  |-> category,
                                    message   |-> message,
                                    details   |-> details])]

add_pass_last_only(L, check_name) ==
    [L EXCEPT !.passed_checks = <<check_name>>]

add_pass(L, check_name) ==
    [L EXCEPT !.passed_checks = Append(@, check_name)]

\* What one rule invocation leaves behind: the ledger, the table (which
\* check_data_freshness may change) and whether it raised.
Outcome(L, df, raised) ==
    [ledger |-> L, df |-> df, raised |-> raised]

\* ---------------------------------------------------- check_missing_values

\* df.isnull().sum() for one column.
MissingCount(df, col) ==
    Cardinality({i \in 1..NRows(df) : IsNull(df.rows[i][col])})

\* (missing / len(df)) * 100 for one column.
MissingPct(df, col) == Div(MissingCount(df, col) * 100, NRows(df))

\* missing[missing > 0]: the columns with a null, in column order.
CriticalMissing(df) ==
    SelectSeq(df.columns, LAMBDA c : MissingCount(df, c) > 0)

MissingSeverityGe(pct) ==
    IF pct[2] # 0 /\ pct[1] >= 10 * pct[2] THEN "HIGH"
    ELSE IF pct[2] # 0 /\ pct[1] >= 5 * pct[2] THEN "MEDIUM"
    ELSE "LOW"

\* The if / elif / else on pct.
MissingSeverity(pct) ==
    IF FloatGt(pct, 10) THEN "HIGH"
    ELSE IF FloatGt(pct, 5) THEN "MEDIUM"
    ELSE "LOW"

RECURSIVE AddMissingIssues(_, _, _, _, _)
AddMissingIssues(L, t, df, df_name, cols) ==
    IF cols = <<>> THEN L
    ELSE LET col   == Head(cols)
             count == MissingCount(df, col)
             pct   == MissingPct(df, col)
         IN AddMissingIssues(
                add_issue(L, t, MissingSeverity(pct), "Missing Data",
                          <<df_name, col, count, pct>>,
                          [column |-> col, count |-> count, percentage |-> pct]),
                t, df, df_name, Tail(cols))

check_missing_values(L, t, df, df_name) ==
    LET critical_missing == CriticalMissing(df) IN
    IF Len(critical_missing) > 0
    THEN Outcome(AddMissingIssues(L, t, df, df_name, critical_missing),
                 df, FALSE)
    ELSE Outcome(add_pass(L, <<"No missing values in", df_name>>),
                 df, FALSE)

\* -------------------------------------------------------- check_duplicates

\* The key a row is compared on: all columns, or those of subset.  An empty
\* subset is falsy, so it means all columns too.
DupKey(df, subset, i) ==
    LET keycols == IF subset = <<>> THEN df.columns ELSE subset IN
    [k \in 1..Len(keycols) |-> df.rows[i][keycols[k]]]

\* df.duplicated(...).sum(): rows equal to an earlier row (nulls compare equal).
DuplicatedCount(df, subset) ==
    Cardinality({i \in 1..NRows(df) :
                    \E j \in 1..(i - 1) : DupKey(df, subset, j) = DupKey(df, subset, i)})

check_duplicates(L, t, df, df_name, subset) ==
    LET duplicates == DuplicatedCount(df, subset) IN
    IF duplicates > 0
    THEN Outcome(add_issue(L, t, "MEDIUM", "Duplicates",
                           <<df_name, duplicates>>, [count |-> duplicates]),
                 df, FALSE)
    ELSE Outcome(add_pass(L, <<"No duplicates in", df_name>>), df, FALSE)

\* ------------------------------------------------------- check_data_ranges

\* Whether (df[col] < min_val) | (df[col] > max_val) raises TypeError: a
\* string cell cannot be ordered against a number, nor can a datetime column.
\* Nulls compare False without raising.
RangeCompareRaises(df, col) ==
    \/ df.dtypes[col] = "datetime64"
    \/ \E i \in 1..NRows(df) : df.rows[i][col][1] \in {"str", "date", "ts"}

\* ((df[col] < min_val) | (df[col] > max_val)).sum()
OutOfRange(df, col, min_val, max_val) ==
    Cardinality({i \in 1..NRows(df) :
                    /\ df.rows[i][col][1] = "num"
                    /\ (df.rows[i][col][2] < min_val \/ df.rows[i][col][2] > max_val)})

RangeNoPass(L, t, df, df_name, col, min_val, max_val) ==
    LET out_of_range == OutOfRange(df, col, min_val, max_val) IN
    IF out_of_range > 0
    THEN add_issue(L, t, "MEDIUM", "Range Validation",
                   <<df_name, out_of_range, col, min_val, max_val>>,
                   [column |-> col, count |-> out_of_range,
                    expected_range |-> <<min_val, max_val>>])
    ELSE L

\* The body of the loop for one column that is present and comparable.
RangeOneColumn(L, t, df, df_name, col, min_val, max_val) ==
    LET out_of_range == OutOfRange(df, col, min_val, max_val) IN
    IF out_of_range > 0
    THEN add_issue(L, t, "MEDIUM", "Range Validation",
                   <<df_name, out_of_range, col, min_val, max_val>>,
                   [column |-> col, count |-> out_of_range,
                    expected_range |-> <<min_val, max_val>>])
    ELSE add_pass(L, <<df_name, col, "range check">>)

\* range_checks is the dict in insertion order: <<col, min_val, max_val>>.
\* A TypeError leaves the loop with what earlier columns appended.
RECURSIVE RangeLoop(_, _, _, _, _)
RangeLoop(L, t, df, df_name, range_checks) ==
    IF range_checks = <<>> THEN Outcome(L, df, FALSE)
    ELSE LET col == Head(range_checks)[1]
             min_val == Head(range_checks)[2]
             max_val == Head(range_checks)[3]
         IN IF ~HasColumn(df, col)
            THEN RangeLoop(L, t, df, df_name, Tail(range_checks))
            ELSE IF RangeCompareRaises(df, col)
            THEN Outcome(L, df, TRUE)
            ELSE RangeLoop(RangeOneColumn(L, t, df, df_name, col, min_val, max_val),
                           t, df, df_name, Tail(range_checks))

check_data_ranges(L, t, df, df_name, range_checks) ==
    RangeLoop(L, t, df, df_name, range_checks)

\* ---------------------------------------------------- check_data_freshness

\* pd.to_datetime raises on a string that is no date.
ToDatetimeRaises(vals) == \E i \in 1..Len(vals) : vals[i][1] = "str"

\* pd.to_datetime on one cell: a date string becomes midnight of its day, a
\* number is taken as nanoseconds after the epoch, a null becomes NaT.
ToDatetimeCell(v) ==
    CASE v[1] = "date" -> Ts(v[2] * HoursPerDay)
      [] v[1] = "ts"   -> v
      [] v[1] = "num"  -> Ts(0)
      [] OTHER         -> NaT

CoerceColumnDropNa(df, col) ==
    [df EXCEPT !.rows = SelectSeq([i \in 1..NRows(df) |->
                                     [df.rows[i] EXCEPT ![col] = ToDatetimeCell(@)]],
                                  LAMBDA r : r[col] # NaT),
               !.dtypes[col] = "datetime64"]

\* df[date_column] = pd.to_datetime(df[date_column])
CoerceColumn(df, col) ==
    [df EXCEPT !.rows = [i \in 1..NRows(df) |->
                            [df.rows[i] EXCEPT ![col] = ToDatetimeCell(@)]],
               !.dtypes[col] = "datetime64"]

\* df[date_column].max(): the greatest Timestamp, nulls skipped; NaT if none.
LatestDate(df, col) ==
    LET hs == {df.rows[i][col][2] : i \in {j \in 1..NRows(df) : df.rows[j][col][1] = "ts"}}
    IN IF hs = {} THEN NaT
       ELSE Ts(CHOOSE h \in hs : \A g \in hs : g <= h)

\* (datetime.now() - latest_date).days: timedelta.days is the floor of the
\* difference in days; NaT gives nan.
AgeDays(t, latest_date) ==
    IF latest_date[1] = "ts" THEN Num((t - latest_date[2]) \div HoursPerDay) ELSE NaN

IsStaleGe(age_days, max_age_days) ==
    age_days[1] = "num" /\ age_days[2] >= max_age_days

\* age_days > max_age_days (False for nan).
IsStale(age_days, max_age_days) ==
    age_days[1] = "num" /\ age_days[2] > max_age_days

\* str(latest_date)
StrOfTs(v) == IF v[1] = "ts" THEN Strftime(v[2]) ELSE <<"NaT">>

check_data_freshness(L, t, df, df_name, date_column, max_age_days) ==
    IF ~HasColumn(df, date_column) THEN Outcome(L, df, FALSE)
    ELSE IF ToDatetimeRaises(ColumnValues(df, date_column))
    THEN \* except Exception: the assignment never happened
         Outcome(add_issue(L, t, "MEDIUM", "Date Parsing",
                           <<df_name, date_column, "error">>, NONE),
                 df, FALSE)
    ELSE LET df2 == CoerceColumn(df, date_column)
             latest_date == LatestDate(df2, date_column)
             age_days == AgeDays(t, latest_date)
         IN IF IsStale(age_days, max_age_days)
            THEN Outcome(add_issue(L, t, "HIGH", "Data Freshness",
                                   <<df_name, age_days, max_age_days>>,
                                   [latest_date |-> StrOfTs(latest_date),
                                    age_days |-> age_days]),
                         df2, FALSE)
            ELSE Outcome(add_pass(L, <<df_name, "freshness check">>), df2, FALSE)

\* ---------------------------------------------------------- check_outliers

\* pd.api.types.is_numeric_dtype(df[col])
IsNumericDtype(df, col) == df.dtypes[col] = "float64"

RECURSIVE Insert(_, _)
Insert(x, sorted) ==
    IF sorted = <<>> THEN <<x>>
    ELSE IF x <= Head(sorted) THEN <<x>> \o sorted
    ELSE <<Head(sorted)>> \o Insert(x, Tail(sorted))

RECURSIVE Sorted(_)
Sorted(xs) == IF xs = <<>> THEN <<>> ELSE Insert(Head(xs), Sorted(Tail(xs)))

\* The numbers of a column, nulls dropped, in ascending order.
SortedNumbers(df, col) ==
    LET present == SelectSeq(ColumnValues(df, col), LAMBDA v : v[1] = "num")
    IN Sorted([i \in 1..Len(present) |-> present[i][2]])

\* Four times Series.quantile(k/4) by linear interpolation, on sorted values:
\* the position is (n - 1) * k / 4, counted from 0.  NONE stands for nan.
Quantile4(sorted, k) ==
    IF sorted = <<>> THEN NONE
    ELSE LET h4   == (Len(sorted) - 1) * k
             lo   == h4 \div 4
             frac == h4 % 4
         IN IF frac = 0 THEN 4 * sorted[lo + 1]
            ELSE 4 * sorted[lo + 1] + frac * (sorted[lo + 2] - sorted[lo + 1])

\* ((df[col] < lower_bound) | (df[col] > upper_bound)).sum(), with
\* lower_bound = Q1 - 1.5 * IQR and upper_bound = Q3 + 1.5 * IQR; both sides
\* of each comparison are scaled by 8.
OutlierCount(df, col) ==
    LET sorted == SortedNumbers(df, col)
        Q1 == Quantile4(sorted, 1)
        Q3 == Quantile4(sorted, 3)
    IN IF sorted = <<>> THEN 0   \* nan bounds: every comparison is False
       ELSE LET IQR == Q3 - Q1
                lower_bound == 2 * Q1 - 3 * IQR
                upper_bound == 2 * Q3 + 3 * IQR
            IN Cardinality({i \in 1..Len(sorted) :
                              8 * sorted[i] < lower_bound \/ 8 * sorted[i] > upper_bound})

\* (outliers / len(df)) * 100
OutlierPct(df, col) == Div(OutlierCount(df, col) * 100, NRows(df))

OutlierOneColumnMedium(L, t, df, df_name, col) ==
    LET outliers == OutlierCount(df, col)
        outlier_pct == OutlierPct(df, col)
    IN IF FloatGt(outlier_pct, 5)
       THEN add_issue(L, t, "MEDIUM", "Outliers",
                      <<df_name, col, outliers, outlier_pct>>,
                      [column |-> col, count |-> outliers, percentage |-> outlier_pct])
       ELSE add_pass(L, <<df_name, col, "outlier check">>)

\* The body of the loop for one column that is present and numeric.
OutlierOneColumn(L, t, df, df_name, col) ==
    LET outliers == OutlierCount(df, col)
        outlier_pct == OutlierPct(df, col)
    IN IF FloatGt(outlier_pct, 5)
       THEN add_issue(L, t, "LOW", "Outliers",
                      <<df_name, col, outliers, outlier_pct>>,
                      [column |-> col, count |-> outliers, percentage |-> outlier_pct])
       ELSE add_pass(L, <<df_name, col, "outlier check">>)

RECURSIVE OutlierLoop(_, _, _, _, _)
OutlierLoop(L, t, df, df_name, numeric_columns) ==
    IF numeric_columns = <<>> THEN Outcome(L, df, FALSE)
    ELSE LET col == Head(numeric_columns) IN
         IF HasColumn(df, col) /\ IsNumericDtype(df, col)
         THEN OutlierLoop(OutlierOneColumn(L, t, df, df_name, col),
                          t, df, df_name, Tail(numeric_columns))
         ELSE OutlierLoop(L, t, df, df_name, Tail(numeric_columns))

check_outliers(L, t, df, df_name, numeric_columns) ==
    OutlierLoop(L, t, df, df_name, numeric_columns)

\* --------------------------------------------- check_referential_integrity

\* (~df1[key_column].isin(df2[key_column])).sum(); isin matches null with null.
OrphanedCount(df1, df2, key_column) ==
    Cardinality({i \in 1..NRows(df1) :
                    \A j \in 1..NRows(df2) :
                        df2.rows[j][key_column] # df1.rows[i][key_column]})

check_referential_integrity(L, t, df1, df2, df1_name, df2_name, key_column) ==
    IF HasColumn(df1, key_column) /\ HasColumn(df2, key_column)
    THEN LET orphaned_count == OrphanedCount(df1, df2, key_column) IN
         IF orphaned_count > 0
         THEN Outcome(add_issue(L, t, "HIGH", "Referential Integrity",
                                <<orphaned_count, df1_name, key_column, df2_name>>,
                                [count |-> orphaned_count, key |-> key_column]),
                      df1, FALSE)
         ELSE Outcome(add_pass(L, <<"Referential integrity", df1_name, df2_name>>),
                      df1, FALSE)
    ELSE Outcome(L, df1, FALSE)

\* --------------------------------------------------------- generate_report

\* How many issues carry the severity: the value_counts() the console shows.
SeverityCount(iss, severity) ==
    Cardinality({i \in 1..Len(iss) : iss[i].severity = severity})

\* The dict generate_report returns, with what it printed: the severity
\* counts and the itemized listing, or the all-passed line.
generate_report(L) ==
    [total_checks  |-> Len(L.passed_checks) + Len(L.issues),
     passed        |-> Len(L.passed_checks),
     issues        |-> Len(L.issues),
     issues_detail |-> L.issues,
     printed       |-> IF Len(L.issues) > 0
                       THEN [all_passed |-> FALSE,
                             by_severity |-> [sv \in {L.issues[i].severity : i \in 1..Len(L.issues)}
                                                |-> SeverityCount(L.issues, sv)],
                             listing |-> [i \in 1..Len(L.issues) |->
                                            <<i, L.issues[i].severity, L.issues[i].category,
                                              L.issues[i].message, L.issues[i].timestamp>>]]
                       ELSE [all_passed |-> TRUE, by_severity |-> <<>>, listing |-> <<>>]]

\* pd.DataFrame(checker.issues).to_csv(index=False): one row per issue, in
\* order, with the columns timestamp, severity, category, message, details.
ToCsv(L) ==
    [i \in 1..Len(L.issues) |->
        <<L.issues[i].timestamp, L.issues[i].severity, L.issues[i].category,
          L.issues[i].message, L.issues[i].details>>]

\* ------------------------------------------------- the tables of a session

Columns == <<"date", "location", "occupancy_rate">>

\* The default of max_age_days.
DefaultMaxAge == 7

DateValues == {NaN, DateStr(Today - 10), DateStr(Today - DefaultMaxAge), Str(0)}
LocationValues == {Str(1), Str(2)}
RateValues == {NaN, Num(100), Num(101), Str(0)}

OddRows == [date : DateValues, location : LocationValues, occupancy_rate : RateValues]
BulkRow == [date |-> DateStr(Today - 10), location |-> Str(1), occupancy_rate |-> Num(100)]
BulkCounts == {0, 1, Bulk - 1, Bulk}

\* An empty DataFrame has object columns when read from a csv file and may
\* have numeric ones when built in code.
SessionTables ==
    { MakeFrame(Columns, r, m1, BulkRow, m2, "object") :
        r \in OddRows, m1 \in 1..MaxOdd, m2 \in BulkCounts }
    \cup { MakeFrame(Columns, BulkRow, 0, BulkRow, m2, d) :
             m2 \in BulkCounts, d \in {"object", "float64"} }

\* Parent tables of the referential-integrity rule: one with the key column,
\* one without it.
ParentTables ==
    { MakeFrame(<<"location">>, [location |-> Str(1)], 1, [location |-> Str(1)], 0, "object"),
      MakeFrame(<<"member_id">>, [member_id |-> Str(1)], 1, [member_id |-> Str(1)], 0, "object") }

OccupancyRanges == <<<<"occupancy_rate", 0, 100>>, <<"capacity", 50, 200>>>>

\* The range_checks a session passes: the driver's for the occupancy table
\* (the session's tables have no capacity column), then the date column,
\* which holds no numbers.
SessionRanges == OccupancyRanges \o <<<<"date", 0, 100>>>>

\* ------------------------------------------------------------ the session

Ledger == [issues |-> issues, passed_checks |-> passed_checks]

NoCall == [op |-> "none", table |-> NONE, args |-> <<>>, df |-> NONE,
           issues |-> <<>>, passed_checks |-> <<>>, raised |-> FALSE]

NoExport == [written |-> FALSE, rows |-> <<>>]

Clock == Today * HoursPerDay + NowHour

Init ==
    /\ tables \in {[df |-> T] : T \in SessionTables}
    /\ issues = <<>>
    /\ passed_checks = <<>>
    /\ now = Clock
    /\ files = <<>>
    /\ pc = "session"
    /\ report = <<>>
    /\ export = NoExport
    /\ result = "running"
    /\ signal = NONE
    /\ calls = 0
    /\ last = NoCall

\* The effect of one rule invocation `op` on table `name` with outcome `out`.
Invoke(op, name, args, out) ==
    /\ tables' = [tables EXCEPT ![name] = out.df]
    /\ issues' = out.ledger.issues
    /\ passed_checks' = out.ledger.passed_checks
    /\ calls' = calls + 1
    /\ last' = [op |-> op, table |-> name, args |-> args, df |-> tables[name],
                issues |-> issues, passed_checks |-> passed_checks,
                raised |-> out.raised]

CanCall == pc = "session" /\ calls < MaxCalls

CheckMissingValues ==
    /\ CanCall
    /\ Invoke("check_missing_values", "df", <<>>,
              check_missing_values(Ledger, now, tables["df"], "df"))
    /\ UNCHANGED <<now, files, pc, report, export, result, signal>>

CheckDuplicates ==
    /\ CanCall
    /\ \E subset \in {<<>>, <<"date", "location">>} :
          Invoke("check_duplicates", "df", subset,
                 check_duplicates(Ledger, now, tables["df"], "df", subset))
    /\ UNCHANGED <<now, files, pc, report, export, result, signal>>

CheckDataRanges ==
    /\ CanCall
    /\ Invoke("check_data_ranges", "df", SessionRanges,
              check_data_ranges(Ledger, now, tables["df"], "df", SessionRanges))
    /\ UNCHANGED <<now, files, pc, report, export, result, signal>>

CheckDataFreshness ==
    /\ CanCall
    /\ Invoke("check_data_freshness", "df", <<"date", DefaultMaxAge>>,
              check_data_freshness(Ledger, now, tables["df"], "df", "date", DefaultMaxAge))
    /\ UNCHANGED <<now, files, pc, report, export, result, signal>>

CheckOutliers ==
    /\ CanCall
    /\ LET numeric_columns == <<"occupancy_rate", "location", "capacity">> IN
       Invoke("check_outliers", "df", numeric_columns,
              check_outliers(Ledger, now, tables["df"], "df", numeric_columns))
    /\ UNCHANGED <<now, files, pc, report, export, result, signal>>

CheckReferentialIntegrity ==
    /\ CanCall
    /\ \E df2 \in ParentTables :
          Invoke("check_referential_integrity", "df", df2.columns,
                 check_referential_integrity(Ledger, now, tables["df"], df2,
                                             "df", "parent", "location"))
    /\ UNCHANGED <<now, files, pc, report, export, result, signal>>

\* generate_report on the session's checker.
GenerateReport ==
    /\ pc = "session"
    /\ report = <<>>
    /\ report' = <<generate_report(Ledger)>>
    /\ last' = [op |-> "generate_report", table |-> NONE, args |-> <<>>, df |-> NONE,
                issues |-> issues, passed_checks |-> passed_checks,
                raised |-> FALSE]
    /\ UNCHANGED <<tables, issues, passed_checks, now, files, pc, export,
                   result, signal, calls>>

Next ==
    \/ CheckMissingValues
    \/ CheckDuplicates
    \/ CheckDataRanges
    \/ CheckDataFreshness
    \/ CheckOutliers
    \/ CheckReferentialIntegrity
    \/ GenerateReport

Spec == Init /\ [][Next]_vars

\* ------------------------------------------------- the files of a driver run

OccupancyColumns ==
    <<"date", "location", "occupancy_rate", "capacity", "occupied_desks", "day_of_week">>
RevenueColumns ==
    <<"month", "location", "space_type", "units_sold", "revenue", "avg_price">>
MemberColumns ==
    <<"member_id", "member_type", "location", "space_type", "join_date",
      "tenure_days", "is_active", "monthly_value">>

\* A row as generate_data.py writes it: yesterday's date, values in range.
CleanOccupancyRow ==
    [date |-> DateStr(Today - 1), location |-> Str(1), occupancy_rate |-> Num(100),
     capacity |-> Num(100), occupied_desks |-> Num(100), day_of_week |-> Str(3)]
CleanRevenueRow ==
    [month |-> Num(1), location |-> Str(1), space_type |-> Str(4), units_sold |-> Num(50),
     revenue |-> Num(250000), avg_price |-> Num(5000)]
CleanMemberRow ==
    [member_id |-> Str(5), member_type |-> Str(6), location |-> Str(1), space_type |-> Str(4),
     join_date |-> DateStr(Today - 1), tenure_days |-> Num(1), is_active |-> Num(1),  \* True
     monthly_value |-> Num(5000)]

MemberMaxAge == 365

\* Rows that differ from the clean one in the cells the rules read.
OccupancyRows ==
    { [CleanOccupancyRow EXCEPT !.date = d, !.occupancy_rate = v] :
        d \in {DateStr(Today - 1), Str(0)}, v \in {Num(100), Num(101), NaN, Str(0)} }
RevenueRows ==
    { [CleanRevenueRow EXCEPT !.revenue = v, !.units_sold = u] :
        v \in {Num(250000), Str(0)}, u \in {Num(50), Num(501), Str(0)} }
MemberRows ==
    { [CleanMemberRow EXCEPT !.join_date = d] :
        d \in {DateStr(Today - 1), DateStr(Today - (MemberMaxAge + 1)), Str(0)} }

FileTables(cols, rows, clean) ==
    { MakeFrame(cols, r, m1, clean, m2, "object") :
        r \in rows, m1 \in 1..MaxFileRows, m2 \in {0, 1} }
    \cup { MakeFrame(cols, clean, 0, clean, m2, "object") : m2 \in {0, 1} }

EmptyFrame == [columns |-> <<>>, rows |-> <<>>, dtypes |-> <<>>]

\* A csv file: absent, unreadable as csv, or holding a table.
FileStates(cols, rows, clean) ==
    { [state |-> "absent", df |-> EmptyFrame], [state |-> "malformed", df |-> EmptyFrame] }
    \cup { [state |-> "ok", df |-> T] : T \in FileTables(cols, rows, clean) }

\* ----------------------------------------------------- run_quality_checks

\* The statements of run_quality_checks in order.
Statements == <<
    [label |-> "load occupancy_data", op |-> "load", table |-> "occupancy_data", args |-> <<>>],
    [label |-> "load revenue_data", op |-> "load", table |-> "revenue_data", args |-> <<>>],
    [label |-> "load member_data", op |-> "load", table |-> "member_data", args |-> <<>>],
    [label |-> "missing occupancy_data", op |-> "check_missing_values",
     table |-> "occupancy_data", args |-> <<>>],
    [label |-> "duplicates occupancy_data", op |-> "check_duplicates",
     table |-> "occupancy_data", args |-> <<"date", "location">>],
    [label |-> "ranges occupancy_data", op |-> "check_data_ranges",
     table |-> "occupancy_data", args |-> OccupancyRanges],
    [label |-> "freshness occupancy_data", op |-> "check_data_freshness",
     table |-> "occupancy_data", args |-> <<"date", DefaultMaxAge>>],
    [label |-> "outliers occupancy_data", op |-> "check_outliers",
     table |-> "occupancy_data", args |-> <<"occupancy_rate">>],
    [label |-> "missing revenue_data", op |-> "check_missing_values",
     table |-> "revenue_data", args |-> <<>>],
    [label |-> "duplicates revenue_data", op |-> "check_duplicates",
     table |-> "revenue_data", args |-> <<>>],
    [label |-> "ranges revenue_data", op |-> "check_data_ranges",
     table |-> "revenue_data", args |-> <<<<"revenue", 0, 10000000>>, <<"units_sold", 0, 500>>>>],
    [label |-> "missing member_data", op |-> "check_missing_values",
     table |-> "member_data", args |-> <<>>],
    [label |-> "duplicates member_data", op |-> "check_duplicates",
     table |-> "member_data", args |-> <<"member_id">>],
    [label |-> "freshness member_data", op |-> "check_data_freshness",
     table |-> "member_data", args |-> <<"join_date", MemberMaxAge>>],
    [label |-> "generate_report", op |-> "generate_report", table |-> NONE, args |-> <<>>],
    [label |-> "save report", op |-> "save_report", table |-> NONE, args |-> <<>>] >>

\* A driver that reads each file only when its first check needs it.
ProgramLazyLoad ==
    <<Statements[1]>> \o SubSeq(Statements, 4, 8) \o <<Statements[2]>>
    \o SubSeq(Statements, 9, 11) \o <<Statements[3]>> \o SubSeq(Statements, 12, 16)

\* The program run_quality_checks executes.
Program == Statements

Labels == {Program[i].label : i \in 1..Len(Program)}

IndexOf(label) == CHOOSE i \in 1..Len(Program) : Program[i].label = label

\* The statement the run is at (only when pc is a label of Program).
At == Program[IndexOf(pc)]

\* The label after the current statement; "returned" after the last one.
After ==
    IF IndexOf(pc) = Len(Program) THEN "returned" ELSE Program[IndexOf(pc) + 1].label

RunInit ==
    /\ files \in [occupancy_data : FileStates(OccupancyColumns, OccupancyRows, CleanOccupancyRow),
                  revenue_data   : FileStates(RevenueColumns, RevenueRows, CleanRevenueRow),
                  member_data    : FileStates(MemberColumns, MemberRows, CleanMemberRow)]
    /\ tables = <<>>
    /\ issues = <<>>
    /\ passed_checks = <<>>
    /\ now = Clock
    /\ pc = Program[1].label
    /\ report = <<>>
    /\ export = NoExport
    /\ result = "running"
    /\ signal = NONE
    /\ calls = 0
    /\ last = NoCall

\* An exception reaches one of the two except clauses: the run prints the
\* signal and returns None.
Abort(sig) ==
    /\ pc' = "aborted"
    /\ signal' = sig
    /\ result' = NONE

\* pd.read_csv of the file the statement names.
RunLoad ==
    /\ pc \in Labels /\ At.op = "load"
    /\ LET f == files[At.table] IN
       IF f.state = "absent"
       THEN Abort("not_found") /\ UNCHANGED tables
       ELSE IF f.state = "malformed"
       THEN Abort("error") /\ UNCHANGED tables
       ELSE /\ tables' = [n \in DOMAIN tables \cup {At.table} |->
                            IF n = At.table THEN f.df ELSE tables[n]]
            /\ pc' = After
            /\ UNCHANGED <<signal, result>>
    /\ UNCHANGED <<issues, passed_checks, now, files, report, export, calls, last>>

\* A rule call of the driver: the invocation, then the next statement, or the
\* generic except clause when the rule raised.
RunRule(out) ==
    /\ Invoke(At.op, At.table, At.args, out)
    /\ IF out.raised THEN Abort("error")
       ELSE pc' = After /\ UNCHANGED <<signal, result>>
    /\ UNCHANGED <<now, files, report, export>>

RunCheckMissingValues ==
    /\ pc \in Labels /\ At.op = "check_missing_values"
    /\ RunRule(check_missing_values(Ledger, now, tables[At.table], At.table))

RunCheckDuplicates ==
    /\ pc \in Labels /\ At.op = "check_duplicates"
    /\ RunRule(check_duplicates(Ledger, now, tables[At.table], At.table, At.args))

RunCheckDataRanges ==
    /\ pc \in Labels /\ At.op = "check_data_ranges"
    /\ RunRule(check_data_ranges(Ledger, now, tables[At.table], At.table, At.args))

RunCheckDataFreshness ==
    /\ pc \in Labels /\ At.op = "check_data_freshness"
    /\ RunRule(check_data_freshness(Ledger, now, tables[At.table], At.table,
                                    At.args[1], At.args[2]))

RunCheckOutliers ==
    /\ pc \in Labels /\ At.op = "check_outliers"
    /\ RunRule(check_outliers(Ledger, now, tables[At.table], At.table, At.args))

\* report = checker.generate_report()
RunGenerateReport ==
    /\ pc \in Labels /\ At.op = "generate_report"
    /\ report' = <<generate_report(Ledger)>>
    /\ pc' = After
    /\ last' = [op |-> "generate_report", table |-> NONE, args |-> <<>>, df |-> NONE,
                issues |-> issues, passed_checks |-> passed_checks,
                raised |-> FALSE]
    /\ UNCHANGED <<tables, issues, passed_checks, now, files, export, result, signal, calls>>

SaveAlways(L) == [written |-> TRUE, rows |-> ToCsv(L)]

\* report_df = pd.DataFrame(checker.issues); the file is written only when
\* report_df has a row.
SaveReport(L) ==
    IF Len(L.issues) > 0 THEN [written |-> TRUE, rows |-> ToCsv(L)] ELSE NoExport

\* The export, then return report.
RunSaveReport ==
    /\ pc \in Labels /\ At.op = "save_report"
    /\ export' = SaveReport(Ledger)
    /\ result' = "report"
    /\ pc' = After
    /\ UNCHANGED <<tables, issues, passed_checks, now, files, report, signal, calls, last>>

RunNext ==
    \/ RunLoad
    \/ RunCheckMissingValues
    \/ RunCheckDuplicates
    \/ RunCheckDataRanges
    \/ RunCheckDataFreshness
    \/ RunCheckOutliers
    \/ RunGenerateReport
    \/ RunSaveReport

RunSpec == RunInit /\ [][RunNext]_vars

\* ================================================================ claims

\* What the last invocation appended to the ledger.
NewIssues == SubSeq(issues, Len(last.issues) + 1, Len(issues))
NewPasses == SubSeq(passed_checks, Len(last.passed_checks) + 1, Len(passed_checks))

IsPrefix(a, b) == Len(a) <= Len(b) /\ \A i \in 1..Len(a) : a[i] = b[i]

ColumnSet(df) == {df.columns[i] : i \in 1..Len(df.columns)}

\* The number of nulls a table holds in a column.
NullsIn(df, col) == Cardinality({i \in 1..Len(df.rows) : df.rows[i][col] \in {NaN, NaT}})

\* The severity the threshold table gives k nulls out of n rows:
\* pct > 10 HIGH, 5 < pct <= 10 MEDIUM, 0 < pct <= 5 LOW, with pct = 100k/n.
ThresholdSeverity(k, n) ==
    IF 100 * k > 10 * n THEN "HIGH"
    ELSE IF 100 * k > 5 * n THEN "MEDIUM"
    ELSE "LOW"

\* C1: check_missing_values on a table with n > 0 rows appends exactly one
\* 'Missing Data' Finding for each column with k > 0 nulls and none for the
\* others; the Finding carries count = k and percentage = k/n*100 and the
\* severity of the threshold table (pct exactly 10 is MEDIUM, exactly 5 is
\* LOW); when no column has a null it appends no Finding and one pass.
C1_MissingValues ==
    (last.op = "check_missing_values" /\ Len(last.df.rows) > 0) =>
        LET df == last.df
            n  == Len(df.rows)
            affected == {c \in ColumnSet(df) : NullsIn(df, c) > 0}
        IN /\ Len(NewIssues) = Cardinality(affected)
           /\ \A i \in 1..Len(NewIssues) : NewIssues[i].category = "Missing Data"
           /\ \A c \in affected :
                \E i \in 1..Len(NewIssues) :
                    LET f == NewIssues[i]
                        k == NullsIn(df, c)
                    IN /\ f.details.column = c
                       /\ f.details.count = k
                       /\ f.details.percentage[2] > 0
                       /\ f.details.percentage[1] * n = 100 * k * f.details.percentage[2]
                       /\ f.severity = ThresholdSeverity(k, n)
           /\ affected = {} => Len(NewPasses) = 1

\* A table of 20 rows with 2 nulls in a column: pct is exactly 10, MEDIUM.
C1_Witness ==
    /\ last.op = "check_missing_values"
    /\ Len(last.df.rows) = 20
    /\ \E i \in 1..Len(NewIssues) :
          /\ NewIssues[i].severity = "MEDIUM"
          /\ NewIssues[i].details.percentage = <<10, 1>>

\* C2: check_missing_values and check_outliers invoked on an empty table
\* append no Finding and no pass: the ledger is as it was before the call.
C2_EmptyTableAppendsNothing ==
    (last.op \in {"check_missing_values", "check_outliers"} /\ Len(last.df.rows) = 0) =>
        /\ Len(issues) = Len(last.issues)
        /\ Len(passed_checks) = Len(last.passed_checks)

\* C3: a run whose three input files all exist never ends in the generic
\* error abort, whatever the tables hold.
C3_NoAbortOnContent ==
    (\A n \in DOMAIN files : files[n].state = "ok") =>
        ~(pc = "aborted" /\ signal = "error")

LoadLabels == {Program[i].label : i \in {j \in 1..Len(Program) : Program[j].op = "load"}}

\* C4: when one of the three input files is absent the run aborts before any
\* rule is invoked, the ledger still empty; and an aborted run is terminal:
\* no statement runs after it, generate_report was not called, no export
\* file is written and the run returns None.
C4_AbortIsTerminal ==
    /\ (\E n \in DOMAIN files : files[n].state = "absent") =>
          /\ calls = 0
          /\ Len(issues) = 0
          /\ Len(passed_checks) = 0
          /\ pc \in LoadLabels \cup {"aborted"}
    /\ pc = "aborted" =>
          /\ result = NONE
          /\ Len(report) = 0
          /\ ~export.written
          /\ ~ENABLED RunNext

\* The third file is absent: two tables were loaded, then the run aborted
\* with the inputs-not-found signal.
C4_Witness ==
    /\ pc = "aborted"
    /\ signal = "not_found"
    /\ DOMAIN tables = {"occupancy_data", "revenue_data"}

\* A date column is parseable when no cell is a string that is no date.
Parseable(df, col) == \A i \in 1..Len(df.rows) : df.rows[i][col][1] # "str"

\* C5: when check_data_freshness cannot coerce its date column it does not
\* raise, appends exactly one MEDIUM 'Date Parsing' Finding and no pass, and
\* the driver run goes on through all later checks to the report: a run that
\* recorded a date-parsing Finding is never aborted.
C5_DateParseRunContinues ==
    /\ (/\ last.op = "check_data_freshness"
        /\ last.args[1] \in ColumnSet(last.df)
        /\ ~Parseable(last.df, last.args[1])) =>
          /\ ~last.raised
          /\ Len(NewIssues) = 1
          /\ NewIssues[1].severity = "MEDIUM"
          /\ NewIssues[1].category = "Date Parsing"
          /\ Len(NewPasses) = 0
    /\ (\E i \in 1..Len(issues) : issues[i].category = "Date Parsing") => pc # "aborted"

\* C6: at the end of a run that completed all checks the export file is
\* written exactly when the ledger holds a Finding; it holds the Findings in
\* ledger order and nothing else; with no Finding the summary says that all
\* checks passed and no file is written.
C6_ExportIffFindings ==
    pc = "returned" =>
        /\ export.written <=> Len(issues) > 0
        /\ export.written =>
              /\ Len(export.rows) = Len(issues)
              /\ \A i \in 1..Len(issues) :
                    export.rows[i] = <<issues[i].timestamp, issues[i].severity,
                                       issues[i].category, issues[i].message,
                                       issues[i].details>>
        /\ Len(issues) = 0 => (report[1].printed.all_passed /\ ~export.written)

\* A finished run with several Findings and a pass, exported.
C6_Witness ==
    /\ pc = "returned"
    /\ export.written
    /\ Len(issues) >= 2
    /\ Len(passed_checks) >= 1

\* The named columns a table has, in the order they are named.
PresentNamed(df, names) == SelectSeq(names, LAMBDA c : c \in ColumnSet(df))

\* C7 as stated, for an invocation that returns, on a table with a row: a
\* column-level check appends as many Findings plus passes as the columns it
\* evaluated: all columns of the table for check_missing_values, the named
\* columns present for check_data_ranges, the named columns present and
\* numeric for check_outliers.
C7_OnePerColumn ==
    (last.op \in {"check_missing_values", "check_data_ranges", "check_outliers"}
     /\ ~last.raised /\ Len(last.df.rows) > 0) =>
        Len(NewIssues) + Len(NewPasses) =
            CASE last.op = "check_missing_values" -> Len(last.df.columns)
              [] last.op = "check_data_ranges" ->
                    Len(PresentNamed(last.df, [i \in 1..Len(last.args) |-> last.args[i][1]]))
              [] last.op = "check_outliers" ->
                    Len(SelectSeq(PresentNamed(last.df, last.args),
                                  LAMBDA c : last.df.dtypes[c] = "float64"))

\* A column whose cells cannot be ordered against a number: it holds a
\* string, or it is date-typed.
NotComparable(df, col) ==
    \/ df.dtypes[col] = "datetime64"
    \/ \E i \in 1..Len(df.rows) : df.rows[i][col][1] \in {"str", "date", "ts"}

\* The named, present columns check_data_ranges gets through: all of them, or
\* those before the first one that cannot be compared.
RangeColumnsDone(df, range_checks) ==
    LET named == PresentNamed(df, [i \in 1..Len(range_checks) |-> range_checks[i][1]])
        bad   == {i \in 1..Len(named) : NotComparable(df, named[i])}
    IN IF bad = {} THEN Len(named)
       ELSE (CHOOSE i \in bad : \A j \in bad : i <= j) - 1

\* C7 (amended): check_data_ranges appends one Finding or pass for each named
\* column present that it evaluated (all of them, or those before the first
\* column whose comparison raises); check_outliers appends one for each named
\* column present and numeric; check_missing_values appends one Finding for
\* each column with a null, or one pass for the table when there is none.
C7_ColumnAccounting ==
    /\ last.op = "check_data_ranges" =>
          Len(NewIssues) + Len(NewPasses) = RangeColumnsDone(last.df, last.args)
    /\ last.op = "check_outliers" =>
          Len(NewIssues) + Len(NewPasses) =
              Len(SelectSeq(PresentNamed(last.df, last.args),
                            LAMBDA c : last.df.dtypes[c] = "float64"))
    /\ last.op = "check_missing_values" =>
          LET affected == {c \in ColumnSet(last.df) : NullsIn(last.df, c) > 0} IN
          /\ Len(NewIssues) = Cardinality(affected)
          /\ Len(NewPasses) = IF affected = {} THEN 1 ELSE 0

\* A range check over two present columns: one out of range, one in range.
C7_Witness ==
    /\ last.op = "check_data_ranges"
    /\ ~last.raised
    /\ Len(NewIssues) = 1
    /\ Len(NewPasses) = 1

\* C8: the ledger is append-only: the issues and the passed checks before an
\* invocation are prefixes of those after it, and generate_report leaves
\* both as they were.
C8_AppendOnly ==
    /\ IsPrefix(last.issues, issues)
    /\ IsPrefix(last.passed_checks, passed_checks)
    /\ last.op = "generate_report" =>
          (Len(issues) = Len(last.issues) /\ Len(passed_checks) = Len(last.passed_checks))

\* A second invocation appends to a ledger that already holds a Finding and
\* a pass.
C8_Witness ==
    /\ calls = 2
    /\ Len(last.issues) >= 1
    /\ Len(last.passed_checks) >= 1
    /\ Len(NewIssues) >= 1
    /\ Len(NewPasses) >= 1

\* The time a cell of a parseable date column stands for, in hours.
CellHours(v) == IF v[1] = "date" THEN v[2] * HoursPerDay ELSE v[2]

\* C9: check_data_freshness on a table whose date column is present and
\* parseable takes age_days as the whole days from the latest date to now and
\* appends exactly one entry: a HIGH 'Data Freshness' Finding carrying the
\* latest date and age_days when age_days > max_age_days, else one pass (an
\* age equal to max_age_days is a pass).
C9_Freshness ==
    (/\ last.op = "check_data_freshness"
     /\ last.args[1] \in ColumnSet(last.df)
     /\ Parseable(last.df, last.args[1])) =>
        LET col   == last.args[1]
            dated == {i \in 1..Len(last.df.rows) : last.df.rows[i][col][1] \in {"date", "ts"}}
            hours == {CellHours(last.df.rows[i][col]) : i \in dated}
        IN IF hours = {}
           THEN Len(NewIssues) = 0 /\ Len(NewPasses) = 1
           ELSE LET latest  == CHOOSE h \in hours : \A g \in hours : g <= h
                    elapsed == now - latest
                    age     == CHOOSE a \in 0..elapsed :
                                  a * HoursPerDay <= elapsed /\ elapsed < (a + 1) * HoursPerDay
                IN IF age > last.args[2]
                   THEN /\ Len(NewIssues) = 1
                        /\ NewIssues[1].severity = "HIGH"
                        /\ NewIssues[1].category = "Data Freshness"
                        /\ NewIssues[1].details.age_days = Num(age)
                        /\ NewIssues[1].details.latest_date = Strftime(latest)
                        /\ Len(NewPasses) = 0
                   ELSE Len(NewIssues) = 0 /\ Len(NewPasses) = 1

\* The latest date is 10 days old and max_age_days is 7.
C9_Witness ==
    /\ last.op = "check_data_freshness"
    /\ last.args[2] = 7
    /\ Len(NewIssues) = 1
    /\ NewIssues[1].category = "Data Freshness"
    /\ NewIssues[1].details.age_days = Num(10)

\* The date-typed value of a cell of the date column.
DateTyped(v) == IF v[1] = "date" THEN <<"ts", v[2] * HoursPerDay>>
                ELSE IF v[1] = "NaN" THEN NaT ELSE v

\* C10: a rule invocation leaves its table with the same columns, rows and
\* values, except that check_data_freshness replaces the cells of the
\* designated date column by their date-typed values; every other column and
\* the row order are unchanged.
C10_TablesUnchanged ==
    last.op \in {"check_missing_values", "check_duplicates", "check_data_ranges",
                 "check_data_freshness", "check_outliers",
                 "check_referential_integrity"} =>
        LET before == last.df
            after  == tables[last.table]
            coerced == /\ last.op = "check_data_freshness"
                       /\ last.args[1] \in ColumnSet(before)
                       /\ Parseable(before, last.args[1])
        IN /\ after.columns = before.columns
           /\ Len(after.rows) = Len(before.rows)
           /\ \A i \in 1..Len(before.rows) : \A c \in ColumnSet(before) :
                 IF coerced /\ c = last.args[1]
                 THEN after.rows[i][c] = DateTyped(before.rows[i][c])
                 ELSE after.rows[i][c] = before.rows[i][c]
           /\ \A c \in ColumnSet(before) :
                 (~coerced \/ c # last.args[1]) => after.dtypes[c] = before.dtypes[c]

\* A freshness check turned a date string and a null of the date column into
\* a Timestamp and NaT.
C10_Witness ==
    /\ last.op = "check_data_freshness"
    /\ \E i \in 1..Len(last.df.rows) :
          /\ last.df.rows[i]["date"][1] = "date"
          /\ tables["df"].rows[i]["date"][1] = "ts"
    /\ \E i \in 1..Len(last.df.rows) :
          /\ last.df.rows[i]["date"][1] = "NaN"
          /\ tables["df"].rows[i]["date"][1] = "NaT"

Severities == {"HIGH", "MEDIUM", "LOW"}

Categories ==
    {"Missing Data", "Duplicates", "Range Validation", "Data Freshness",
     "Date Parsing", "Outliers", "Referential Integrity"}

\* C11: in every reachable ledger each finding's severity is HIGH, MEDIUM or
\* LOW and its category is one of the seven categories; Duplicates, Range
\* Validation and Date Parsing findings are MEDIUM, Data Freshness and
\* Referential Integrity findings are HIGH, Outliers findings are LOW, and
\* a Missing Data finding may carry any of the three severities.
C11_SeverityByCategory ==
    \A i \in 1..Len(issues) :
        /\ issues[i].severity \in Severities
        /\ issues[i].category \in Categories
        /\ issues[i].category \in {"Duplicates", "Range Validation", "Date Parsing"}
              => issues[i].severity = "MEDIUM"
        /\ issues[i].category \in {"Data Freshness", "Referential Integrity"}
              => issues[i].severity = "HIGH"
        /\ issues[i].category = "Outliers" => issues[i].severity = "LOW"

\* Two rule invocations left an Outliers finding and a Referential Integrity
\* finding in the same ledger.
C11_Witness ==
    /\ \E i \in 1..Len(issues) : issues[i].category = "Outliers"
    /\ \E i \in 1..Len(issues) : issues[i].category = "Referential Integrity"

====
